---- MODULE Spec2Model ----
(***************************************************************************)
(* cf-gnnexplainer: the counterfactual search loop of CFExplainer          *)
(* (src/src/cf_explanation/cf_explainer.py) and the instance orchestrator  *)
(* (src/src/main_explain.py).                                              *)
(*                                                                         *)
(* The perturbation models (gcn_perturb_orig / _delta / _delta_CEM) are    *)
(* not part of the sources: what their forward() and loss_*() return in    *)
(* an epoch is an input of the epoch, drawn from small sets.               *)
(***************************************************************************)
EXTENDS Integers, Sequences, FiniteSets, TLC

\* ------------------------------------------------------------------ bounds
MaxEpochs == 2
MaxLoss == 1
MaxDist == 1
MaxWorkers == 2
MaxTasks == 2
MaxExpl == 1
MaxRuns == 3
MaxSide == 2
\* entries of a perturbed adjacency and of P are kept as multiples of 1/CfScale
CfScale == 2

\* the instance is a two-node subgraph; nodes are indexed from 0 as in the code
Nodes == {0, 1}
\* the classifier is binary
Classes == {0, 1}
\* np.inf, the initial best_loss, and float nan: loss_total.item() is a float
\* and can be either
Inf == MaxLoss + 1
NaN == MaxLoss + 2
\* (history) the mark of an epoch without a valid candidate
NoCandidate == MaxLoss + 3
\* loss_total.item(): the finite losses, inf and nan
Losses == (0 .. MaxLoss) \cup {Inf, NaN}
Dists == 0 .. MaxDist
\* a < b and a <= b on floats: False whenever an operand is nan
Less(a, b) == a # NaN /\ b # NaN /\ a < b
LessEq(a, b) == a # NaN /\ b # NaN /\ a <= b

\* cem_mode values: None, the two contrastive modes, and an unsupported string
CemModes == {"None", "PN", "PP", "XX"}
\* entries a perturbed adjacency handed back by the perturbation model can hold,
\* in units of 1/CfScale: -1, 0, 1/CfScale, 1 and 2
CfVals == {-CfScale, 0, 1, CfScale, 2 * CfScale}
\* optimizer names a caller can pass; only "SGD" and "Adadelta" are recognised
OptimizerNames == {"SGD", "Adadelta", "Adam"}
Methods == {"explain_node", "explain_graph"}
LowerPairs == {p \in Nodes \X Nodes : p[1] >= p[2]}
\* symmetric matrices over a value set, given by their lower triangle
SymMatrices(V) ==
    {[i \in Nodes |-> [j \in Nodes |-> IF i >= j THEN f[<<i, j>>] ELSE f[<<j, i>>]]] :
        f \in [LowerPairs -> V]}
SubAdjs == SymMatrices({0, 1})

VARIABLES
    \* CFExplainer.__init__ arguments and fields
    cem_mode, edge_del, edge_add, delta, bernoulli, sub_adj, cf_model,
    \* position of the explainer call and the error it raised, if any
    pc, error,
    \* explain_node / explain_graph arguments
    method, optimizer_name, n_momentum, y_pred_orig, num_epochs,
    \* explain_node / explain_graph fields and locals
    cf_optimizer, epoch, best_cf_example, best_loss, num_cf_examples,
    \* what the last call of train_node_expl / train_graph_expl saw and returned
    new_example, loss_total, y_pred_new_actual,
    \* the value explain_node / explain_graph returned
    ret,
    \* server_explain: the CFExplainer class the workers bind, the pool size, the
    \* test instances, its position, the two queues and its locals
    explainer_api, n_workers, n_tasks, srv_pc, next_task, sentinels_put,
    task_queue, result_queue, num_expl_found, res_list, test_expls,
    \* client_explain, per worker: position and the task in hand
    wpc, wargs,
    \* workers whose error was handed to error_callback
    reported,
    \* (history) instance indices in the order their results were put
    put_order,
    \* cf_model.named_parameters(): requires_grad of each parameter, and the
    \* number of optimizer steps that have updated it since load_state_dict
    requires_grad, param_steps,
    \* (history) per epoch, the total loss of its candidate, NoCandidate when it
    \* had none
    epoch_log,
    \* server_explain, saving: the configuration of the run, the files that
    \* exist under ../results, and (history) the configuration and path of each run
    cfg, files, runs,
    \* create_symm_matrix_tril: arguments and result
    matrix, final_side_len, symm_matrix,
    \* the perturbation model: adjacency, P, edit operations, perturbed adjacency
    adj_orig, P, edit_ops, A_tilde, util_pc

vars == <<cem_mode, edge_del, edge_add, delta, bernoulli, sub_adj, cf_model, pc, error,
          method, optimizer_name, n_momentum, y_pred_orig, num_epochs,
          cf_optimizer, epoch, best_cf_example, best_loss, num_cf_examples,
          new_example, loss_total, y_pred_new_actual, ret,
          explainer_api, n_workers, n_tasks, srv_pc, next_task, sentinels_put,
          task_queue, result_queue, num_expl_found, res_list, test_expls,
          wpc, wargs, reported, put_order, requires_grad, param_steps, epoch_log,
          cfg, files, runs, matrix, final_side_len, symm_matrix,
          adj_orig, P, edit_ops, A_tilde, util_pc>>

ctorVars == <<cem_mode, edge_del, edge_add, delta, bernoulli, sub_adj>>
argVars == <<method, optimizer_name, n_momentum, y_pred_orig, num_epochs>>
orchVars == <<explainer_api, n_workers, n_tasks, srv_pc, next_task, sentinels_put,
              task_queue, result_queue, num_expl_found, res_list, test_expls,
              wpc, wargs, reported, put_order>>
searchVars == <<cem_mode, edge_del, edge_add, delta, bernoulli, sub_adj, cf_model,
                pc, error, method, optimizer_name, n_momentum, y_pred_orig,
                num_epochs, cf_optimizer, epoch, best_cf_example, best_loss,
                num_cf_examples, new_example, loss_total, y_pred_new_actual, ret,
                requires_grad, param_steps, epoch_log>>
loopVars == <<epoch, best_cf_example, best_loss, num_cf_examples,
              new_example, loss_total, y_pred_new_actual>>
paramVars == <<requires_grad, param_steps>>
saveVars == <<cfg, files, runs>>
symmVars == <<matrix, final_side_len, symm_matrix>>
perturbVars == <<adj_orig, P, edit_ops, A_tilde>>
utilVars == <<saveVars, symmVars, perturbVars, util_pc>>

\* ------------------------------------------------------------ construction
\* np.diag(m)
Diag(m) == {m[i][i] : i \in Nodes}
Entries(m) == {m[i][j] : i \in Nodes, j \in Nodes}

\* the alternative: a self-loop test that looks at the first node only
HasSelfLoopFirst(adj) == adj[0][0] # 0

\* an adjacency with a nonzero diagonal entry
HasSelfLoop(adj) == \E i \in Nodes : adj[i][i] # 0

\* The constructor of a perturbation model (GCNSyntheticPerturbOrig, ...Delta,
\* ...CEM): it rejects an input adjacency that has a self-loop.
PerturbModelError(adj) == IF HasSelfLoop(adj) THEN "E_SELF_LOOP" ELSE "none"

\* the perturbation model class __init__ instantiates for a supported mode
CfModelClass(mode, dlt) ==
    IF mode \in {"PN", "PP"} THEN "GCNSyntheticPerturbCEM"
    ELSE IF dlt THEN "GCNSyntheticPerturbDelta"
    ELSE "GCNSyntheticPerturbOrig"

\* the alternative: __init__ without the check that an edit operation is allowed
InitErrorNoOpCheck(mode, del, add, adj) ==
    IF mode \in {"PN", "PP"} THEN PerturbModelError(adj)
    ELSE IF mode = "None" THEN PerturbModelError(adj)
    ELSE "E_CEM_MODE"

\* the error CFExplainer.__init__ ends with, "none" when it returns
InitError(mode, del, add, adj) ==
    IF mode = "None" /\ ~del /\ ~add THEN "E_NO_OP"
    ELSE IF mode \in {"PN", "PP"} THEN PerturbModelError(adj)
    ELSE IF mode = "None" THEN PerturbModelError(adj)
    ELSE "E_CEM_MODE"

\* named_parameters() of the perturbation model: the classifier's layers, loaded
\* from the original model, and the perturbation vector
\* strings are kept as the sequences of their characters
Weight == <<"w", "e", "i", "g", "h", "t">>
Bias == <<"b", "i", "a", "s">>
Gc1 == <<"g", "c", "1", ".">>
Lin == <<"l", "i", "n", ".">>
PVec == <<"P", "_", "v", "e", "c">>
\* gc1.weight, gc1.bias, lin.weight, lin.bias, P_vec
ParamNames == {Gc1 \o Weight, Gc1 \o Bias, Lin \o Weight, Lin \o Bias, PVec}
\* name.endswith(suffix): the last len(suffix) characters of name are suffix
EndsWith(name, suffix) ==
    /\ Len(name) >= Len(suffix)
    /\ SubSeq(name, Len(name) - Len(suffix) + 1, Len(name)) = suffix

\* the alternative: only the parameters named "weight" are frozen
FreezeWeightOnly(rg) ==
    [n \in DOMAIN rg |-> IF EndsWith(n, Weight) THEN FALSE ELSE rg[n]]

\* the freeze loop of __init__: requires_grad = False for "weight" and "bias"
FreezeWeights(rg) ==
    [n \in DOMAIN rg |->
        IF EndsWith(n, Weight) \/ EndsWith(n, Bias) THEN FALSE ELSE rg[n]]

\* zero_grad, backward, clip_grad_norm_ and cf_optimizer.step(): a parameter is
\* updated when backward gave it a gradient, that is when it requires one
OptimizerStep(steps, rg) ==
    [n \in DOMAIN steps |-> IF rg[n] THEN steps[n] + 1 ELSE steps[n]]

\* the two-node graph with its one edge, no self-loop
EdgeAdj == [i \in Nodes |-> [j \in Nodes |-> IF i = j THEN 0 ELSE 1]]

\* Every configuration and every adjacency, searched for at most one epoch.
ShortTask ==
    /\ cem_mode \in CemModes
    /\ edge_del \in BOOLEAN
    /\ edge_add \in BOOLEAN
    /\ delta \in BOOLEAN
    /\ bernoulli \in BOOLEAN
    /\ sub_adj \in SubAdjs
    /\ method \in Methods
    /\ optimizer_name \in OptimizerNames
    /\ n_momentum \in {0, 1}
    /\ y_pred_orig \in Classes
    /\ num_epochs \in {0, 1}

\* Deletion mode and PP mode on the two-node graph, searched for two epochs.
LongTask ==
    /\ cem_mode \in {"None", "PP"}
    /\ edge_del = (cem_mode = "None")
    /\ edge_add = FALSE
    /\ delta = FALSE
    /\ bernoulli = FALSE
    /\ sub_adj = EdgeAdj
    /\ method = "explain_node"
    /\ optimizer_name = "SGD"
    /\ n_momentum = 0
    /\ y_pred_orig = 0
    /\ num_epochs = 2

\* Deletion mode on the two-node graph with every optimizer name and every
\* epoch budget from 0 to MaxEpochs.
BudgetTask ==
    /\ cem_mode = "None"
    /\ edge_del = TRUE
    /\ edge_add = FALSE
    /\ delta = FALSE
    /\ bernoulli = FALSE
    /\ sub_adj = EdgeAdj
    /\ method = "explain_node"
    /\ optimizer_name \in OptimizerNames
    /\ n_momentum = 0
    /\ y_pred_orig = 0
    /\ num_epochs \in 0 .. MaxEpochs

\* the explainer before it is constructed: no model, no optimizer, no epoch run
SearchStart ==
    /\ cf_model = "none"
    /\ pc = "new"
    /\ error = "none"
    /\ cf_optimizer = "unset"
    /\ epoch = 0
    /\ best_cf_example = <<>>
    /\ best_loss = Inf
    /\ num_cf_examples = 0
    /\ new_example = <<>>
    /\ loss_total = 0
    /\ y_pred_new_actual = 0
    /\ ret = <<>>
    /\ requires_grad = [n \in ParamNames |-> TRUE]
    /\ param_steps = [n \in ParamNames |-> 0]
    /\ epoch_log = <<>>

\* A task as the orchestrator hands it to a worker: the constructor's and the
\* search's arguments are both fixed before the explainer is constructed.
InitSearch ==
    /\ ShortTask \/ LongTask
    /\ SearchStart

\* no orchestrator around the explainer
OrchIdle ==
    /\ explainer_api = "src"
    /\ n_workers = 0
    /\ n_tasks = 0
    /\ srv_pc = "idle"
    /\ next_task = 0
    /\ sentinels_put = 0
    /\ task_queue = <<>>
    /\ result_queue = <<>>
    /\ num_expl_found = 0
    /\ res_list = <<>>
    /\ test_expls = <<>>
    /\ wpc = <<>>
    /\ wargs = <<>>
    /\ reported = {}
    /\ put_order = <<>>

\* the zero matrix of a side length, rows and columns indexed from 0
Zeros(n) == [i \in 0 .. n - 1 |-> [j \in 0 .. n - 1 |-> 0]]

\* nothing is being saved
SaveIdle ==
    /\ cfg = <<>>
    /\ files = <<>>
    /\ runs = <<>>

\* create_symm_matrix_tril is not being called
SymmIdle ==
    /\ matrix = Zeros(0)
    /\ final_side_len = 0
    /\ symm_matrix = Zeros(0)

\* no perturbation model is being evaluated
PerturbIdle ==
    /\ adj_orig = Zeros(0)
    /\ P = Zeros(0)
    /\ edit_ops = "none"
    /\ A_tilde = Zeros(0)

UtilIdle == SaveIdle /\ SymmIdle /\ PerturbIdle /\ util_pc = "idle"

Init == InitSearch /\ OrchIdle /\ UtilIdle

\* CFExplainer.__init__
Construct ==
    /\ pc = "new"
    /\ LET e == InitError(cem_mode, edge_del, edge_add, sub_adj) IN
        /\ error' = e
        /\ pc' = IF e = "none" THEN "ready" ELSE "raised"
        /\ cf_model' = IF e = "none" THEN CfModelClass(cem_mode, delta) ELSE "none"
        /\ requires_grad' = IF e = "none" THEN FreezeWeights(requires_grad)
                                           ELSE requires_grad
    /\ UNCHANGED <<ctorVars, argVars, cf_optimizer, loopVars, ret, param_steps,
                   epoch_log, orchVars, utilVars>>


\* ---------------------------------------------------------------- explain
\* the optimizer explain_node / explain_graph build; "unset" when the name is
\* neither "SGD" nor "Adadelta" (self.cf_optimizer is then never assigned)
SelectOptimizer(name, momentum) ==
    IF name = "SGD" /\ momentum = 0 THEN "SGD"
    ELSE IF name = "SGD" /\ momentum # 0 THEN "SGD_nesterov"
    ELSE IF name = "Adadelta" THEN "Adadelta"
    ELSE "unset"

\* explain_node / explain_graph up to the loop: optimizer and loop locals
ExplainStart ==
    /\ pc = "ready"
    /\ cf_optimizer' = SelectOptimizer(optimizer_name, n_momentum)
    /\ pc' = "loop"
    /\ epoch' = 0
    /\ best_cf_example' = <<>>
    /\ best_loss' = Inf
    /\ num_cf_examples' = 0
    /\ UNCHANGED <<ctorVars, argVars, cf_model, error, new_example, loss_total,
                   y_pred_new_actual, ret, paramVars, epoch_log, orchVars, utilVars>>

\* ------------------------------------------------------------- one epoch
\* the alternative: the validity test reading the differentiable prediction
IsValidCandidateDiff(mode, y_orig, y_new, y_new_actual) ==
    LET cond_PP == mode = "PP" /\ y_new = y_orig
        cond_cf == mode # "PP" /\ y_new # y_orig
    IN cond_PP \/ cond_cf

\* cond_PP or cond_cf: does this epoch produce a candidate record
IsValidCandidate(mode, y_orig, y_new, y_new_actual) ==
    LET cond_PP == mode = "PP" /\ y_new_actual = y_orig
        cond_cf == mode # "PP" /\ y_new_actual # y_orig
    IN cond_PP \/ cond_cf

\* the loss of the perturbation model an epoch calls
LossFunction(mode, bern) ==
    IF mode = "PN" THEN "loss_PN"
    ELSE IF mode = "PP" THEN "loss_PP"
    ELSE IF mode = "None" THEN (IF bern THEN "loss_bernoulli" ELSE "loss_std")
    ELSE "E_CEM_MODE_TRAIN"

\* cf_stats of train_node_expl (node_idx, new_idx given) and of
\* train_graph_expl (None, None); the last field is loss_graph_dist
CfStats(m, adj, y_orig, y_new_actual, cf_adj, loss_graph_dist) ==
    <<IF m = "explain_node" THEN "node_idx" ELSE "None",
      IF m = "explain_node" THEN "new_idx" ELSE "None",
      cf_adj, adj, y_orig, y_new_actual, "label", Cardinality(Nodes), loss_graph_dist>>

\* train_node_expl / train_graph_expl: the pair (cf_stats, loss_total) it returns
\* from what the perturbation model's forward() and loss gave in this epoch
TrainExpl(m, mode, adj, y_orig, y_new, y_new_actual, l_total, l_dist, cf_adj) ==
    <<IF IsValidCandidate(mode, y_orig, y_new, y_new_actual)
        THEN CfStats(m, adj, y_orig, y_new_actual, cf_adj, l_dist)
        ELSE <<>>,
      l_total>>

\* best_cf_example[-1], the loss_graph_dist of a record
GraphDist(example) == example[Len(example)]

\* the alternative: replacement on a loss that is not larger
ReplacesOnTie(example, l_total, best) == example # <<>> /\ LessEq(l_total, best)

\* the replacement test of the loop body
Replaces(example, l_total, best) == example # <<>> /\ Less(l_total, best)

\* a perturbed adjacency: the input adjacency with one entry pair overwritten
EditEntry(a, p, v) ==
    [i \in Nodes |-> [j \in Nodes |->
        IF <<i, j>> = p \/ <<j, i>> = p THEN v ELSE a[i][j]]]
\* an adjacency in units of 1/CfScale
Scaled(m) == [i \in DOMAIN m |-> [j \in DOMAIN m[i] |-> CfScale * m[i][j]]]
CfAdjs(a) ==
    {Scaled(a)} \cup {EditEntry(Scaled(a), p, v) : p \in LowerPairs, v \in CfVals}

\* the alternative: a loop that leaves one epoch of the budget unused
InRangeShort(e, n) == e + 1 < n

\* for epoch in range(num_epochs): is there another iteration
InRange(e, n) == e < n

\* one iteration of the loop of explain_node / explain_graph
Epoch ==
    /\ pc = "loop"
    /\ InRange(epoch, num_epochs)
    /\ IF cf_optimizer = "unset"
       THEN \* self.cf_optimizer.zero_grad() on an attribute never assigned
            /\ pc' = "raised"
            /\ error' = "E_NO_OPTIMIZER"
            /\ UNCHANGED <<loopVars, param_steps, epoch_log>>
       ELSE IF LossFunction(cem_mode, bernoulli) = "E_CEM_MODE_TRAIN"
       THEN /\ pc' = "raised"
            /\ error' = "E_CEM_MODE_TRAIN"
            /\ UNCHANGED <<loopVars, param_steps, epoch_log>>
       ELSE \E yn \in Classes, ya \in Classes, lt \in Losses, ld \in Dists,
               ca \in CfAdjs(sub_adj) :
            LET r == TrainExpl(method, cem_mode, sub_adj, y_pred_orig,
                               yn, ya, lt, ld, ca)
                take == Replaces(r[1], r[2], best_loss)
            IN /\ new_example' = r[1]
               /\ loss_total' = r[2]
               /\ y_pred_new_actual' = ya
               /\ best_cf_example' = IF take THEN r[1] ELSE best_cf_example
               /\ best_loss' = IF take THEN r[2] ELSE best_loss
               /\ num_cf_examples' = IF take THEN num_cf_examples + 1
                                     ELSE num_cf_examples
               /\ epoch' = epoch + 1
               /\ param_steps' = OptimizerStep(param_steps, requires_grad)
               /\ epoch_log' = Append(epoch_log, IF r[1] # <<>> THEN r[2] ELSE NoCandidate)
               /\ UNCHANGED <<pc, error>>
    /\ UNCHANGED <<ctorVars, argVars, cf_model, cf_optimizer, ret, requires_grad,
                   orchVars, utilVars>>

\* ------------------------------------------------------- post-loop checks
\* the alternative: the graph-distance check without its threshold of 1
PostLoopErrorNoDist(best, mode) ==
    IF best # <<>> /\ GraphDist(best) < 0 /\ mode # "PP" THEN "E_GRAPH_DIST"
    ELSE IF best # <<>> /\ CfScale \in Diag(best[3]) THEN "E_SELF_CONNECTION"
    ELSE IF best # <<>> /\ (\E x \in Entries(best[3]) : x > CfScale) THEN "E_GREATER_1"
    ELSE IF best # <<>> /\ (\E x \in Entries(best[3]) : x < 0) THEN "E_LESS_0"
    ELSE "none"

\* the checks after the loop, in order; "none" when all pass
PostLoopError(best, mode) ==
    IF best # <<>> /\ GraphDist(best) < 1 /\ mode # "PP" THEN "E_GRAPH_DIST"
    ELSE IF best # <<>> /\ CfScale \in Diag(best[3]) THEN "E_SELF_CONNECTION"
    ELSE IF best # <<>> /\ (\E x \in Entries(best[3]) : x > CfScale) THEN "E_GREATER_1"
    ELSE IF best # <<>> /\ (\E x \in Entries(best[3]) : x < 0) THEN "E_LESS_0"
    ELSE "none"

\* what explain_node / explain_graph return
ExplainReturn(best, loss, count) == <<best, loss>>

\* the loop has run num_epochs times: checks, then return or raise
Finish ==
    /\ pc = "loop"
    /\ ~InRange(epoch, num_epochs)
    /\ LET e == PostLoopError(best_cf_example, cem_mode) IN
        /\ error' = e
        /\ pc' = IF e = "none" THEN "returned" ELSE "raised"
        /\ ret' = IF e = "none"
                  THEN ExplainReturn(best_cf_example, best_loss, num_cf_examples)
                  ELSE <<>>
    /\ UNCHANGED <<ctorVars, argVars, cf_model, cf_optimizer, loopVars, paramVars,
                   epoch_log, orchVars, utilVars>>

Next == Construct \/ ExplainStart \/ Epoch \/ Finish


Spec == Init /\ [][Next]_vars

\* The search on its own budget tasks. A call that has started keeps
\* running: the explainer is sequential code.
InitBudget == BudgetTask /\ SearchStart /\ OrchIdle /\ UtilIdle
FairBudget == InitBudget /\ [][Next]_vars /\ WF_vars(Next)

\* ------------------------------------------------------- the output path
\* the hyperparameters server_explain is called with
HyperParams ==
    {"optimizer", "lr", "n_momentum", "alpha", "beta", "gamma", "num_epochs",
     "cem_mode", "edge_del", "edge_add", "delta", "bernoulli", "rand_init",
     "history", "hist_len", "div_hind"}
\* those that hold a number
NumericParams ==
    {"lr", "n_momentum", "alpha", "beta", "gamma", "num_epochs", "rand_init",
     "hist_len", "div_hind"}
\* abs(x)
Abs(x) == IF x < 0 THEN -x ELSE x
\* A Python number: an int n, or a float, which is a sign and a magnitude
\* kept in thousandths (0.005 is PyFloat(5), 1.0 is PyFloat(1000), -0.5 is
\* PyFloat(-500)); a float zero has a sign too, and -0.0 is
\* PyFloatOf(TRUE, 0).
PyInt(n) == [ty |-> "int", v |-> n]
PyFloatOf(neg, mag) == [ty |-> "float", neg |-> neg, v |-> mag]
PyFloat(m) == PyFloatOf(m < 0, Abs(m))
\* the value of a number, in thousandths: what ==, < and > compare (-0.0 and
\* 0.0 are equal, and neither is > 0)
Thousandths(x) ==
    IF x.ty = "int" THEN 1000 * x.v ELSE IF x.neg THEN -x.v ELSE x.v

\* the defaults of server_explain's signature
DefaultConfig ==
    [optimizer |-> "SGD", lr |-> PyFloat(5), n_momentum |-> PyInt(0),
     alpha |-> PyInt(1), beta |-> PyFloat(500), gamma |-> PyInt(0),
     num_epochs |-> PyInt(500), cem_mode |-> "None", edge_del |-> FALSE,
     edge_add |-> FALSE, delta |-> FALSE, bernoulli |-> FALSE,
     rand_init |-> PyFloat(500), history |-> TRUE, hist_len |-> PyInt(10),
     div_hind |-> PyInt(1)]
\* keyword arguments of a direct call of server_explain
CallKwargs ==
    {<<>>} \cup
    {[h \in {kv[1]} |-> kv[2]] :
        kv \in {<<"alpha", PyFloat(1000)>>, <<"rand_init", PyInt(0)>>,
                <<"rand_init", PyFloatOf(TRUE, 0)>>,
                <<"n_momentum", PyFloat(0)>>, <<"div_hind", PyInt(5)>>}}
\* server_explain(dataset, model, **kwargs): the signature's defaults with the
\* keywords given, each value as the caller passed it
CallConfig(kwargs) ==
    [h \in HyperParams |-> IF h \in DOMAIN kwargs THEN kwargs[h] ELSE DefaultConfig[h]]

\* argparse, lines 254-282: the type of each option that takes a number, and
\* the defaults, which argparse leaves as they are written
OptionType ==
    [lr |-> "float", n_momentum |-> "float", alpha |-> "float", beta |-> "float",
     gamma |-> "float", num_epochs |-> "int", rand_init |-> "float",
     hist_len |-> "int", div_hind |-> "int"]
ArgDefaults ==
    [optimizer |-> "SGD", lr |-> PyFloat(5), n_momentum |-> PyFloat(0),
     alpha |-> PyInt(1), beta |-> PyFloat(500), gamma |-> PyInt(0),
     num_epochs |-> PyInt(500), cem_mode |-> "None", edge_del |-> FALSE,
     edge_add |-> FALSE, delta |-> FALSE, bernoulli |-> FALSE,
     rand_init |-> PyFloat(500), no_history |-> FALSE, hist_len |-> PyInt(10),
     div_hind |-> PyInt(5)]
\* the text of a number on the command line: whether it starts with a minus
\* sign, and the magnitude it denotes (in thousandths for a float option);
\* "-0.0" is ArgText(TRUE, 0)
ArgText(neg, mag) == [neg |-> neg, mag |-> mag]
\* Command lines: a set of options, each with the text of its number, its
\* string, or TRUE for a flag.
NumberArgs ==
    {<<"lr", ArgText(FALSE, 10)>>, <<"n_momentum", ArgText(FALSE, 900)>>,
     <<"alpha", ArgText(FALSE, 1000)>>, <<"beta", ArgText(FALSE, 1000)>>,
     <<"gamma", ArgText(FALSE, 0)>>, <<"gamma", ArgText(TRUE, 0)>>,
     <<"num_epochs", ArgText(FALSE, 100)>>,
     <<"rand_init", ArgText(FALSE, 0)>>, <<"rand_init", ArgText(TRUE, 0)>>,
     <<"rand_init", ArgText(TRUE, 500)>>,
     <<"hist_len", ArgText(FALSE, 5)>>, <<"div_hind", ArgText(FALSE, 1)>>,
     <<"div_hind", ArgText(TRUE, 0)>>}
StringArgs == {<<"optimizer", "Adadelta">>, <<"cem_mode", "PN">>}
FlagArgs == {"edge_add", "edge_del", "delta", "bernoulli", "no_history"}
CommandLines ==
    {<<>>}
    \cup {[h \in {a[1]} |-> a[2]] : a \in NumberArgs}
    \cup {[h \in {a[1]} |-> a[2]] : a \in StringArgs}
    \cup {[h \in {f} |-> TRUE] : f \in FlagArgs}
    \cup {[h \in {"edge_add", f} |-> TRUE] : f \in {"edge_del", "delta"}}
\* parser.parse_args(): the value of one option; float(text) keeps the sign
\* of a zero, int(text) has one zero
ParseArg(argv, h) ==
    IF h \notin DOMAIN argv THEN ArgDefaults[h]
    ELSE IF h \in FlagArgs THEN TRUE
    ELSE IF h \notin NumericParams THEN argv[h]
    ELSE IF OptionType[h] = "float" THEN PyFloatOf(argv[h].neg, argv[h].mag)
    ELSE PyInt(IF argv[h].neg THEN -argv[h].mag ELSE argv[h].mag)
\* the call of server_explain in __main__, history being `not args.no_history`
MainConfig(argv) ==
    [h \in HyperParams |->
        IF h = "history" THEN ~ParseArg(argv, "no_history") ELSE ParseArg(argv, h)]
\* the configurations of a run: started from a command line, or called directly
Configs ==
    {MainConfig(argv) : argv \in CommandLines}
    \cup {CallConfig(kwargs) : kwargs \in CallKwargs}

\* the digits after the point of repr(float), for r thousandths below one
Frac(r) ==
    IF r = 0 THEN "0"
    ELSE IF r % 100 = 0 THEN ToString(r \div 100)
    ELSE IF r % 10 = 0
    THEN (IF r < 100 THEN "0" ELSE "") \o ToString(r \div 10)
    ELSE (IF r < 10 THEN "00" ELSE IF r < 100 THEN "0" ELSE "") \o ToString(r)
\* "{}".format(x) of a number: str(int) has no point, str(float) always has
\* one (1 gives "1", 1.0 gives "1.0", 0.005 gives "0.005"); a float with the
\* sign set is the minus sign followed by its magnitude (-0.5 gives "-0.5",
\* -0.0 gives "-0.0")
Format(x) ==
    IF x.ty = "int" THEN ToString(x.v)
    ELSE (IF x.neg THEN "-" ELSE "")
         \o ToString(x.v \div 1000) \o "." \o Frac(x.v % 1000)

\* the path before the numeric suffix, lines 196-228
FormatPath(c) ==
    "../results/" \o "syn1"
    \o (IF ~c.delta
        THEN (IF c.edge_add THEN "_add_del" ELSE IF c.edge_del THEN "_del" ELSE "")
             \o "_orig"
        ELSE (IF c.edge_add THEN "_add" ELSE "")
             \o (IF c.edge_del THEN "_del" ELSE "")
             \o "_delta")
    \o (IF c.bernoulli THEN "_bernoulli" ELSE "")
    \o (IF c.cem_mode # "None" THEN "_" \o c.cem_mode ELSE "")
    \o "/" \o c.optimizer
    \o "/cf_examples_lr" \o Format(c.lr)
    \o "_alpha" \o Format(c.alpha)
    \o "_beta" \o Format(c.beta)
    \o "_gamma" \o Format(c.gamma)
    \o "_mom" \o Format(c.n_momentum)
    \o "_epochs" \o Format(c.num_epochs)
    \o "_init" \o Format(c.rand_init)
    \o (IF Thousandths(c.rand_init) > 0 THEN "_rand" ELSE "")

\* the alternative: the suffix 0 whatever exists
FirstFreeZero(path, existing, counter) == 0

\* the while loop of lines 230-237: the first counter from `counter` on for
\* which path + str(counter) does not exist
RECURSIVE FirstFree(_, _, _)
FirstFree(path, existing, counter) ==
    IF (path \o ToString(counter)) \notin existing THEN counter
    ELSE FirstFree(path, existing, counter + 1)

\* dest_path as it is opened for writing
DestPath(c, existing) ==
    IF Thousandths(c.rand_init) > 0
    THEN FormatPath(c) \o ToString(FirstFree(FormatPath(c), existing, 0))
    ELSE FormatPath(c)

\* with safe_open(dest_path, "wb"): pickle.dump(test_expls, f). `fs` maps
\* every existing path to the run whose explanations it holds.
WriteFile(fs, dest_path, run) ==
    [q \in DOMAIN fs \cup {dest_path} |-> IF q = dest_path THEN run ELSE fs[q]]
\* (history) the record of a run: its configuration and its path
RunRecord(c, existing) ==
    [cfg |-> c, base |-> FormatPath(c), path |-> DestPath(c, existing)]

\* ------------------------------------------------------------ orchestrator
Workers == 1 .. n_workers
\* the end-of-work signal, and the task put for instance i
Sentinel == <<>>
TaskOf(i) == <<i, "expl_par", "expl_args">>

\* keywords server_explain puts in expl_par
ExplParKeys ==
    {"model", "cf_optimizer", "lr", "n_momentum", "sub_adj", "num_nodes",
     "sub_feat", "n_hid", "dropout", "sub_label", "num_classes", "alpha", "beta",
     "gamma", "task", "cem_mode", "edge_del", "edge_add", "delta", "bernoulli",
     "rand_init", "history", "hist_len", "div_hind", "device", "verbosity"}
\* parameters of CFExplainer.__init__, and those without a default
InitParams ==
    {"model", "sub_adj", "num_nodes", "sub_feat", "n_hid", "dropout",
     "sub_labels", "num_classes", "beta", "cem_mode", "edge_del", "edge_add",
     "bernoulli", "delta", "device", "task", "verbose"}
InitRequired ==
    {"model", "sub_adj", "num_nodes", "sub_feat", "n_hid", "dropout",
     "sub_labels", "num_classes", "beta"}
\* methods CFExplainer defines
ExplainerMethods ==
    {"__init__", "explain_node", "train_node_expl", "explain_graph",
     "train_graph_expl"}

\* f(**keys): every keyword is a parameter and no required parameter is missing
CallBinds(keys, params, required) == keys \subseteq params /\ required \subseteq keys

\* What the explainer described by the specification (history, explanation
\* count) hands back for one instance: an error, or a history of h records
\* with its count.
SpecExplainOutcomes ==
    {[kind |-> "RuntimeError", hist |-> 0, count |-> 0]} \cup
    {[kind |-> "ok", hist |-> h, count |-> h] : h \in 0 .. MaxExpl}

\* CFExplainer(**expl_par) followed by explainer.explain(**expl_args) in
\* client_explain: the outcomes it can have with the class the worker binds
ExplainerCall(api) ==
    IF api = "src"
    THEN IF ~CallBinds(ExplParKeys, InitParams, InitRequired)
         THEN {[kind |-> "TypeError", hist |-> 0, count |-> 0]}
         ELSE IF "explain" \notin ExplainerMethods
         THEN {[kind |-> "AttributeError", hist |-> 0, count |-> 0]}
         ELSE SpecExplainOutcomes
    ELSE SpecExplainOutcomes

InitOrch ==
    /\ explainer_api \in {"src", "spec"}
    /\ n_workers \in 1 .. MaxWorkers
    /\ n_tasks \in 0 .. MaxTasks
    /\ srv_pc = "enqueue"
    /\ next_task = 0
    /\ sentinels_put = 0
    /\ task_queue = <<>>
    /\ result_queue = <<>>
    /\ num_expl_found = 0
    /\ res_list = <<>>
    /\ test_expls = <<>>
    /\ wpc = [w \in 1 .. n_workers |-> "get"]
    /\ wargs = [w \in 1 .. n_workers |-> Sentinel]
    /\ reported = {}
    /\ put_order = <<>>

\* no explainer outside the workers
SearchIdle ==
    /\ cem_mode = "None"
    /\ edge_del = FALSE
    /\ edge_add = FALSE
    /\ delta = FALSE
    /\ bernoulli = FALSE
    /\ sub_adj = EdgeAdj
    /\ cf_model = "none"
    /\ pc = "idle"
    /\ error = "none"
    /\ method = "none"
    /\ optimizer_name = "none"
    /\ n_momentum = 0
    /\ y_pred_orig = 0
    /\ num_epochs = 0
    /\ cf_optimizer = "unset"
    /\ epoch = 0
    /\ best_cf_example = <<>>
    /\ best_loss = Inf
    /\ num_cf_examples = 0
    /\ new_example = <<>>
    /\ loss_total = 0
    /\ y_pred_new_actual = 0
    /\ ret = <<>>
    /\ requires_grad = [n \in ParamNames |-> TRUE]
    /\ param_steps = [n \in ParamNames |-> 0]
    /\ epoch_log = <<>>

\* server_explain: task_queue.put([i, expl_par, expl_func_args]) for the next instance
ServerEnqueue ==
    /\ srv_pc = "enqueue"
    /\ next_task < n_tasks
    /\ task_queue' = Append(task_queue, TaskOf(next_task))
    /\ next_task' = next_task + 1
    /\ UNCHANGED <<explainer_api, n_workers, n_tasks, srv_pc, sentinels_put,
                   result_queue, num_expl_found, res_list, test_expls,
                   wpc, wargs, reported, put_order, searchVars, utilVars>>

\* the alternative: a single end-of-work signal whatever the pool size
SentinelCountOne(n) == 1

\* for i in range(n_workers): the number of end-of-work signals put
SentinelCount(n) == n

\* server_explain: one end-of-work signal per worker, after the last task
ServerSentinel ==
    /\ srv_pc = "enqueue"
    /\ next_task = n_tasks
    /\ sentinels_put < SentinelCount(n_workers)
    /\ task_queue' = Append(task_queue, Sentinel)
    /\ sentinels_put' = sentinels_put + 1
    /\ UNCHANGED <<explainer_api, n_workers, n_tasks, srv_pc, next_task,
                   result_queue, num_expl_found, res_list, test_expls,
                   wpc, wargs, reported, put_order, searchVars, utilVars>>

\* server_explain: pool.close(), then pool.join() waits for the workers
ServerClose ==
    /\ srv_pc = "enqueue"
    /\ next_task = n_tasks
    /\ sentinels_put = SentinelCount(n_workers)
    /\ srv_pc' = "join"
    /\ UNCHANGED <<explainer_api, n_workers, n_tasks, next_task, sentinels_put,
                   task_queue, result_queue, num_expl_found, res_list,
                   test_expls, wpc, wargs, reported, put_order, searchVars, utilVars>>

\* client_explain: args = task_q.get(), leaving the loop on the signal
WorkerGet(w) ==
    /\ wpc[w] = "get"
    /\ task_queue # <<>>
    /\ task_queue' = Tail(task_queue)
    /\ wargs' = [wargs EXCEPT ![w] = Head(task_queue)]
    /\ wpc' = [wpc EXCEPT ![w] = IF Head(task_queue) = Sentinel
                                  THEN "returned" ELSE "handle"]
    /\ UNCHANGED <<explainer_api, n_workers, n_tasks, srv_pc, next_task,
                   sentinels_put, result_queue, num_expl_found, res_list,
                   test_expls, reported, put_order, searchVars, utilVars>>

\* the alternative: an error in one worker ends every worker
AfterErrorAll(w, pcs) == [v \in DOMAIN pcs |-> "raised"]

\* the workers' positions after worker w raised: only w has ended
AfterError(w, pcs) == [pcs EXCEPT ![w] = "raised"]

\* result = [task_idx, expl, num_tot_expl]
ResultOf(task, o) == <<task[1], [hist |-> o.hist, sparse |-> FALSE], o.count>>

\* client_explain: build the explainer, explain the instance, put the result;
\* an exception leaves client_explain and ends the worker's task
WorkerHandle(w) ==
    /\ wpc[w] = "handle"
    /\ \E o \in ExplainerCall(explainer_api) :
        IF o.kind = "ok"
        THEN /\ result_queue' = Append(result_queue, ResultOf(wargs[w], o))
             /\ put_order' = Append(put_order, wargs[w][1])
             /\ wpc' = [wpc EXCEPT ![w] = "get"]
             /\ UNCHANGED reported
        ELSE /\ wpc' = AfterError(w, wpc)
             /\ UNCHANGED <<reported, result_queue, put_order>>
    /\ UNCHANGED <<explainer_api, n_workers, n_tasks, srv_pc, next_task,
                   sentinels_put, task_queue, num_expl_found, res_list,
                   test_expls, wargs, searchVars, utilVars>>

\* The pool, in the parent process: the exception of worker w has come back
\* from its process and the result handler hands it to error_callback.
ErrorCallback(w) ==
    /\ wpc[w] = "raised"
    /\ w \notin reported
    /\ reported' = reported \cup {w}
    /\ UNCHANGED <<explainer_api, n_workers, n_tasks, srv_pc, next_task,
                   sentinels_put, task_queue, result_queue, num_expl_found,
                   res_list, test_expls, wpc, wargs, put_order, searchVars,
                   utilVars>>

\* the drain loop of server_explain on the queued results: counts the
\* instances with an explanation and turns the tensors of each result sparse
Sparsify(res) == <<res[1], [res[2] EXCEPT !.sparse = TRUE], res[3]>>
Drain(q) == [k \in 1 .. Len(q) |-> Sparsify(q[k])]
CountFound(q) == Cardinality({k \in 1 .. Len(q) : q[k][3] > 0})

\* the alternative: no sort, the results stay in the order they were drained
Unsorted(s) == s

\* res_list.sort(key=lambda x: x[0]): stable, ascending by instance index
RECURSIVE SortByIdx(_)
SortByIdx(s) ==
    IF s = <<>> THEN <<>>
    ELSE LET x == s[Len(s)]
             t == SortByIdx(SubSeq(s, 1, Len(s) - 1))
             k == Cardinality({j \in 1 .. Len(t) : t[j][1] <= x[1]})
         IN SubSeq(t, 1, k) \o <<x>> \o SubSeq(t, k + 1, Len(t))

\* server_explain after pool.join(), which returns once every worker has ended
\* and every error has been handed to error_callback: drain the result queue,
\* sort, build the path and write the explanations in that order to the file
ServerCollect ==
    /\ srv_pc = "join"
    /\ \A w \in Workers : wpc[w] \in {"returned", "raised"}
    /\ \A w \in Workers : wpc[w] = "raised" => w \in reported
    /\ LET sorted == SortByIdx(Drain(result_queue)) IN
        /\ res_list' = sorted
        /\ test_expls' = [k \in 1 .. Len(sorted) |-> sorted[k][2]]
    /\ num_expl_found' = num_expl_found + CountFound(result_queue)
    /\ result_queue' = <<>>
    /\ files' = WriteFile(files, DestPath(cfg, DOMAIN files), Len(runs) + 1)
    /\ runs' = Append(runs, RunRecord(cfg, DOMAIN files))
    /\ srv_pc' = "done"
    /\ UNCHANGED <<explainer_api, n_workers, n_tasks, next_task, sentinels_put,
                   task_queue, wpc, wargs, reported, put_order, searchVars,
                   cfg, symmVars, perturbVars, util_pc>>

\* the configurations server_explain is run with here: the command line's
\* defaults, with and without randomized initialization
ServerConfigs ==
    {MainConfig(<<>>), MainConfig([h \in {"rand_init"} |-> ArgText(FALSE, 0)])}
\* the run's configuration, and the files of earlier runs under ../results:
\* none, or the first file of this configuration
SaveStart ==
    /\ cfg \in ServerConfigs
    /\ files \in {<<>>, WriteFile(<<>>, DestPath(cfg, {}), 0)}
    /\ runs = <<>>

InitServer ==
    InitOrch /\ SearchIdle /\ SaveStart /\ SymmIdle /\ PerturbIdle /\ util_pc = "idle"

NextOrch ==
    \/ ServerEnqueue
    \/ ServerSentinel
    \/ ServerClose
    \/ ServerCollect
    \/ \E w \in Workers : WorkerGet(w)
    \/ \E w \in Workers : WorkerHandle(w)
    \/ \E w \in Workers : ErrorCallback(w)

SpecOrch == InitServer /\ [][NextOrch]_vars

\* the server and every pool process run on their own: none of them is
\* starved while it has a step to take
ServerStep == ServerEnqueue \/ ServerSentinel \/ ServerClose \/ ServerCollect
WorkerStep(w) == w \in Workers /\ (WorkerGet(w) \/ WorkerHandle(w))
PoolStep == \E w \in Workers : ErrorCallback(w)
FairOrch ==
    /\ SpecOrch
    /\ WF_vars(ServerStep)
    /\ WF_vars(PoolStep)
    /\ \A w \in 1 .. MaxWorkers : WF_vars(WorkerStep(w))

\* ------------------------------------------------- create_symm_matrix_tril
\* entries of the matrices handed to create_symm_matrix_tril
SymmVals == {-1, 0, 1}
\* matrix.shape[0] of a square matrix, rows and columns indexed from 0
Side(m) == Cardinality(DOMAIN m)
SquareMatrices(n, V) == [0 .. n - 1 -> [0 .. n - 1 -> V]]

\* the alternative: no masking, the matrix itself
TrilFull(m, k) == m

\* torch.tril(m, k): the entries on and below the k-th diagonal, zero elsewhere
Tril(m, k) ==
    [i \in DOMAIN m |-> [j \in DOMAIN m[i] |-> IF j - i <= k THEN m[i][j] ELSE 0]]
\* m.t()
Transpose(m) == [i \in DOMAIN m |-> [j \in DOMAIN m |-> m[j][i]]]
\* elementwise sum of two matrices of one shape
MatAdd(a, b) == [i \in DOMAIN a |-> [j \in DOMAIN a[i] |-> a[i][j] + b[i][j]]]
\* torch.nn.ZeroPad2d((0, d, 0, d)): d zero columns right and d zero rows below
ZeroPad(m, d) ==
    [i \in 0 .. Side(m) + d - 1 |-> [j \in 0 .. Side(m) + d - 1 |->
        IF i < Side(m) /\ j < Side(m) THEN m[i][j] ELSE 0]]

create_symm_matrix_tril(mat, side_len) ==
    LET orig_side_len == Side(mat)
        symm == MatAdd(Tril(mat, -1), Transpose(Tril(mat, -1)))
    IN IF side_len # orig_side_len
       THEN ZeroPad(symm, Abs(side_len - orig_side_len))
       ELSE symm

\* a call of create_symm_matrix_tril about to be made, on any square matrix
InitSymm ==
    /\ \E n \in 1 .. MaxSide : matrix \in SquareMatrices(n, SymmVals)
    /\ final_side_len \in 1 .. MaxSide + 1
    /\ symm_matrix = Zeros(0)
    /\ util_pc = "symm_call"
    /\ SaveIdle /\ PerturbIdle /\ SearchIdle /\ OrchIdle

CallSymm ==
    /\ util_pc = "symm_call"
    /\ symm_matrix' = create_symm_matrix_tril(matrix, final_side_len)
    /\ util_pc' = "symm_done"
    /\ UNCHANGED <<matrix, final_side_len, saveVars, perturbVars, searchVars, orchVars>>

NextSymm == CallSymm

SpecSymm == InitSymm /\ [][NextSymm]_vars

\* ------------------------------------------------------ perturbation model
\* side lengths of the adjacencies the perturbation is evaluated on
PerturbSides == {1, 2, 3}
\* binary symmetric adjacencies without self-loop
Adjacencies(n) ==
    {create_symm_matrix_tril(m, n) : m \in SquareMatrices(n, {0, 1})}
\* P: symmetrised from the lower triangle of the perturbation parameters, with
\* entries in [0, 1] kept in units of 1/CfScale
PMatrices(n) ==
    {create_symm_matrix_tril(m, n) : m \in SquareMatrices(n, 0 .. CfScale)}
\* the edit operations the flags select: in the original formulation edge_add
\* does both operations, in the delta formulation each flag selects its own
EditOps(del, add, dlt) ==
    IF ~dlt
    THEN (IF add THEN "add_del" ELSE IF del THEN "del" ELSE "none")
    ELSE (IF add /\ del THEN "add_del"
          ELSE IF add THEN "add" ELSE IF del THEN "del" ELSE "none")

\* deletion only, in units of 1/CfScale: adj * P
PerturbedAdjDel(a, p) ==
    [i \in DOMAIN a |-> [j \in DOMAIN a |-> a[i][j] * p[i][j]]]

\* both operations, in units of 1/CfScale: adj * (1 - P) + (1 - adj) * P
PerturbedAdjAddDel(a, p) ==
    [i \in DOMAIN a |-> [j \in DOMAIN a |->
        a[i][j] * (CfScale - p[i][j]) + (1 - a[i][j]) * p[i][j]]]

\* The perturbed adjacencies the edit operations allow. Addition only (edge_add
\* alone in the delta formulation) is combined by that variant's own complement
\* logic, which nothing at hand determines: every symmetric matrix with a zero
\* diagonal and entries in [0, 1] is an outcome.
PerturbedAdjs(a, p, ops) ==
    IF ops = "del" THEN {PerturbedAdjDel(a, p)}
    ELSE IF ops = "add_del" THEN {PerturbedAdjAddDel(a, p)}
    ELSE PMatrices(Side(a))

InitPerturb ==
    /\ \E n \in PerturbSides : adj_orig \in Adjacencies(n) /\ P \in PMatrices(n)
    /\ \E del \in BOOLEAN, add \in BOOLEAN, dlt \in BOOLEAN :
          (del \/ add) /\ edit_ops = EditOps(del, add, dlt)
    /\ A_tilde = Zeros(0)
    /\ util_pc = "perturb_call"
    /\ SaveIdle /\ SymmIdle /\ SearchIdle /\ OrchIdle

\* the perturbation model combines the adjacency and P
Perturb ==
    /\ util_pc = "perturb_call"
    /\ A_tilde' \in PerturbedAdjs(adj_orig, P, edit_ops)
    /\ util_pc' = "perturb_done"
    /\ UNCHANGED <<adj_orig, P, edit_ops, saveVars, symmVars, searchVars, orchVars>>

NextPerturb == Perturb

SpecPerturb == InitPerturb /\ [][NextPerturb]_vars

\* ------------------------------------------------------ saving the results
InitSave ==
    /\ cfg = <<>>
    /\ files = <<>>
    /\ runs = <<>>
    /\ util_pc = "save"
    /\ SymmIdle /\ PerturbIdle /\ SearchIdle /\ OrchIdle

\* One whole run of server_explain as the file system sees it, the pool and
\* the explanations left out: the configuration it is called with and the
\* file it writes.
ServerSave ==
    /\ util_pc = "save"
    /\ Len(runs) < MaxRuns
    /\ \E c \in Configs :
        /\ cfg' = c
        /\ files' = WriteFile(files, DestPath(c, DOMAIN files), Len(runs) + 1)
        /\ runs' = Append(runs, RunRecord(c, DOMAIN files))
    /\ UNCHANGED <<util_pc, symmVars, perturbVars, searchVars, orchVars>>

NextSave == ServerSave

SpecSave == InitSave /\ [][NextSave]_vars

\* ------------------------------------------------------------------ claims
ConfigErrors == {"E_NO_OP", "E_CEM_MODE"}
PostLoopErrors == {"E_GRAPH_DIST", "E_SELF_CONNECTION", "E_GREATER_1", "E_LESS_0"}
\* at least one epoch has run
Trained == pc \in {"loop", "returned", "raised"} /\ epoch > 0
\* the loop has ended and the post-loop checks have run
Checked == pc = "returned" \/ (pc = "raised" /\ error \in PostLoopErrors)
\* the step is one iteration of the loop
EpochStep == epoch' = epoch + 1

\* C1: after every epoch the candidate record is non-empty if and only if, in
\* PP mode, the thresholded prediction equals the original prediction and, in
\* every other mode, it differs from it, whatever the differentiable
\* prediction of that epoch was.
C1_ValidityTest ==
    Trained =>
        (new_example # <<>> <=>
            IF cem_mode = "PP" THEN y_pred_new_actual = y_pred_orig
            ELSE y_pred_new_actual # y_pred_orig)

\* C1 case: an epoch in PP mode produced a record, the thresholded prediction
\* being the original one
C1_Witness ==
    /\ Trained
    /\ cem_mode = "PP"
    /\ new_example # <<>>
    /\ new_example[6] = y_pred_orig

\* C2 as stated: a valid candidate whose graph-distance loss is not larger than
\* that of the tracked best replaces it, and the graph-distance loss of the
\* tracked best never increases from one replacement to the next.
C2_Original ==
    [][EpochStep =>
        /\ (new_example' # <<>> /\ best_cf_example # <<>>
              /\ GraphDist(new_example') <= GraphDist(best_cf_example))
             => best_cf_example' = new_example'
        /\ (best_cf_example # <<>> /\ best_cf_example' # <<>>)
             => GraphDist(best_cf_example') <= GraphDist(best_cf_example)]_vars

\* C2 amended: the ranking key is the total loss. A candidate replaces the
\* tracked best exactly when it is valid and its total loss is strictly smaller
\* than the best total loss so far (an infinite or nan loss never is);
\* otherwise the tracked best is kept, so the best total loss strictly
\* decreases from one replacement to the next.
C2_Amended ==
    [][EpochStep =>
        IF new_example' # <<>> /\ Less(loss_total', best_loss)
        THEN /\ best_cf_example' = new_example'
             /\ best_loss' = loss_total'
             /\ best_loss' < best_loss
             /\ num_cf_examples' = num_cf_examples + 1
        ELSE UNCHANGED <<best_cf_example, best_loss, num_cf_examples>>]_vars

\* a tracked best has been replaced by a later candidate
C2_Witness ==
    /\ num_cf_examples >= 2
    /\ best_cf_example = new_example
    /\ best_loss = loss_total

\* C3: the graph-distance check raises exactly when the tracked best is
\* non-empty, its graph-distance loss is below 1 and the mode is not PP; a
\* record returned in a non-PP mode has graph-distance loss >= 1, and PP mode
\* never fails this check.
C3_GraphDistCheck ==
    /\ error = "E_GRAPH_DIST" =>
          /\ pc = "raised"
          /\ best_cf_example # <<>>
          /\ GraphDist(best_cf_example) < 1
          /\ cem_mode # "PP"
    /\ (Checked /\ best_cf_example # <<>> /\ GraphDist(best_cf_example) < 1
          /\ cem_mode # "PP") => error = "E_GRAPH_DIST"
    /\ (pc = "returned" /\ ret[1] # <<>> /\ cem_mode # "PP")
          => GraphDist(ret[1]) >= 1

\* PP mode returned a record whose graph-distance loss is 0
C3_Witness ==
    /\ pc = "returned"
    /\ cem_mode = "PP"
    /\ ret[1] # <<>>
    /\ GraphDist(ret[1]) = 0

\* C4 as stated: in PP mode every valid candidate is retained, none is
\* discarded because of how its loss ranks against an earlier candidate: an
\* epoch whose thresholded prediction matches the original one adds its record
\* to the result.
C4_Claim ==
    [][(EpochStep /\ cem_mode = "PP" /\ new_example' # <<>>) =>
        /\ best_cf_example' = new_example'
        /\ num_cf_examples' = num_cf_examples + 1]_vars

\* C5 as stated: a search without any valid candidate returns the empty
\* explanation together with an explanation count of zero.
C5_Claim ==
    (pc = "returned" /\ num_cf_examples = 0) => ret = <<<<>>, 0>>

\* C6: cem_mode None with neither edit flag, or an unsupported cem_mode, fails
\* at construction with a configuration error, before a perturbation model is
\* built and before any epoch.
C6_NoOpRejected ==
    (pc # "new" /\ ((cem_mode = "None" /\ ~edge_del /\ ~edge_add)
                      \/ cem_mode \notin {"None", "PN", "PP"})) =>
        /\ pc = "raised"
        /\ error = (IF cem_mode = "None" THEN "E_NO_OP" ELSE "E_CEM_MODE")
        /\ cf_model = "none"
        /\ epoch = 0
        /\ cf_optimizer = "unset"

\* construction failed because no edit operation was allowed
C6_Witness ==
    /\ pc = "raised"
    /\ error = "E_NO_OP"
    /\ num_epochs > 0

\* C7 as stated: a contrastive mode together with an edit flag fails at
\* construction, so no search runs for it.
C7_Claim ==
    (pc # "new" /\ cem_mode \in {"PN", "PP"} /\ (edge_add \/ edge_del)) =>
        pc = "raised" /\ epoch = 0

\* C8: an input adjacency with a self-loop makes construction fail (with the
\* validity error when the configuration itself is accepted), so no epoch runs
\* on it.
C8_SelfLoopRejected ==
    (pc # "new" /\ \E i \in Nodes : sub_adj[i][i] # 0) =>
        /\ pc = "raised"
        /\ error \in ConfigErrors \cup {"E_SELF_LOOP"}
        /\ InitError(cem_mode, edge_del, edge_add, EdgeAdj) = "none"
              => error = "E_SELF_LOOP"
        /\ cf_model = "none"
        /\ epoch = 0

\* construction failed on a self-loop of the second node
C8_Witness ==
    /\ pc = "raised"
    /\ error = "E_SELF_LOOP"
    /\ sub_adj[0][0] = 0
    /\ sub_adj[1][1] = 1
    /\ num_epochs > 0

\* the instance indexes of a sequence of results, and of the persisted list
Range(s) == {s[k] : k \in 1 .. Len(s)}
Persisted == {res_list[k][1] : k \in 1 .. Len(res_list)}
Raised == {w \in Workers : wpc[w] = "raised"}

\* C9: whatever the order in which the workers put their results on the
\* result queue, the list server_explain persists holds exactly those results
\* by strictly increasing instance index, and the explanations written to the
\* file follow that order.
C9_SortedByInstance ==
    srv_pc = "done" =>
        /\ Persisted = Range(put_order)
        /\ Len(res_list) = Len(put_order)
        /\ \A k \in 1 .. Len(res_list) - 1 : res_list[k][1] < res_list[k + 1][1]
        /\ test_expls = [k \in 1 .. Len(res_list) |-> res_list[k][2]]
        /\ Len(runs) = 1 /\ runs[1].path \in DOMAIN files /\ files[runs[1].path] = 1

\* C9 case: the server is done and two results reached the queue out of
\* instance order
C9_Witness ==
    /\ srv_pc = "done"
    /\ Len(res_list) >= 2
    /\ \E k \in 1 .. Len(put_order) - 1 : put_order[k] > put_order[k + 1]

\* C10, the state part: only the error of a worker that raised reaches
\* error_callback, and when the server is done the error of every worker that
\* raised has reached it; by then every other worker has run to its
\* end-of-work signal, every result a worker put is persisted and the file is
\* written, and an instance missing from the output is one a worker raised on
\* or one still waiting in the task queue.
C10_Safety ==
    /\ reported \subseteq Raised
    /\ srv_pc = "done" =>
        /\ reported = Raised
        /\ \A w \in Workers \ Raised : wpc[w] = "returned"
        /\ Len(runs) = 1 /\ runs[1].path \in DOMAIN files /\ files[runs[1].path] = 1
        /\ Persisted = Range(put_order)
        /\ \A i \in 0 .. n_tasks - 1 :
            i \notin Persisted =>
                \/ \E w \in Raised : wargs[w] = TaskOf(i)
                \/ \E k \in 1 .. Len(task_queue) : task_queue[k] = TaskOf(i)

\* C10, the step part: the step in which a worker raises leaves every other
\* worker where it was
C10_Step ==
    \A w \in Workers :
        (wpc[w] # "raised" /\ wpc'[w] = "raised") =>
            \A v \in Workers \ {w} : wpc'[v] = wpc[v]

\* C10: a worker's error is reported through error_callback and halts no
\* other worker; the others keep dequeuing until their end-of-work signal,
\* server_explain terminates and persists every result that was put, and only
\* instances no surviving worker handled are missing.
C10_WorkerErrorIsolated ==
    /\ []C10_Safety
    /\ [][C10_Step]_vars
    /\ <>(srv_pc = "done")

\* C10 case: the server is done, one worker raised on an instance, another ran
\* to its signal, a result is persisted and an instance is missing
C10_Witness ==
    /\ srv_pc = "done"
    /\ reported # {}
    /\ \E w \in Raised : wargs[w] # Sentinel
    /\ \E v \in Workers : wpc[v] = "returned"
    /\ Len(res_list) >= 1
    /\ \E i \in 0 .. n_tasks - 1 : i \notin Persisted

\* the call has ended
Ended == pc \in {"returned", "raised"}

\* C15, the state part: with a recognised optimizer the loop never runs more
\* than num_epochs epochs, the call ends (returning, or raising from a
\* post-loop check) only after exactly num_epochs epochs, one logged per
\* epoch, and with num_epochs = 0 it returns the empty result.
C15_Safety ==
    /\ epoch <= num_epochs
    /\ Len(epoch_log) = epoch
    /\ (pc = "returned" \/ (pc = "raised" /\ error \in PostLoopErrors))
          => epoch = num_epochs
    /\ (Ended /\ cf_model # "none" /\ cf_optimizer # "unset")
          => (epoch = num_epochs /\ error \in PostLoopErrors \cup {"none"})
    /\ (pc = "returned" /\ num_epochs = 0) => ret[1] = <<>>

\* C15, the step part: while epochs remain the only step is the next epoch,
\* whether or not the epoch found a valid candidate or improved the loss; once
\* the budget is used the only step is the end of the call.
C15_Step ==
    (pc = "loop" /\ cf_optimizer # "unset") =>
        IF epoch < num_epochs
        THEN pc' = "loop" /\ epoch' = epoch + 1
        ELSE Ended' /\ epoch' = epoch

\* C15: the search loop is fixed-budget and terminates.
C15_FixedBudget ==
    /\ []C15_Safety
    /\ [][C15_Step]_vars
    /\ (pc = "loop") ~> Ended

\* C15 case: a valid candidate was found in the first epoch, the loop still
\* ran all the epochs of the largest budget, and the call returned
C15_Witness ==
    /\ pc = "returned"
    /\ num_epochs = MaxEpochs
    /\ epoch = MaxEpochs
    /\ epoch_log[1] < Inf
    /\ ret[1] # <<>>

\* C17 as stated: a record is returned only if its perturbed adjacency has an
\* all-zero diagonal and every entry in [0, 1].
C17_Claim ==
    (pc = "returned" /\ ret[1] # <<>>) =>
        /\ Diag(ret[1][3]) = {0}
        /\ \A x \in Entries(ret[1][3]) : 0 <= x /\ x <= CfScale

PerturbParam == PVec

\* C18: once the explainer is constructed every parameter named "weight" or
\* "bias" is non-trainable and, whatever number of epochs has run, no optimizer
\* step has touched it; the perturbation parameter is trainable and is the one
\* parameter the epochs update.
C18_FrozenWeights ==
    cf_model # "none" =>
        /\ \A n \in ParamNames \ {PerturbParam} :
              ~requires_grad[n] /\ param_steps[n] = 0
        /\ requires_grad[PerturbParam]
        /\ param_steps[PerturbParam] = epoch

\* C18 case: a budget of two epochs has run on a constructed explainer and
\* each of them updated the perturbation parameter
C18_Witness ==
    /\ cf_model # "none"
    /\ epoch >= 2
    /\ epoch = num_epochs
    /\ param_steps[PerturbParam] = epoch
    /\ param_steps[Gc1 \o Bias] = 0

\* the epochs so far that had a valid candidate
ValidEpochs == {k \in 1 .. Len(epoch_log) : epoch_log[k] # NoCandidate}

\* C19 as stated: the tracked record is empty exactly when best_loss is still
\* infinite, which is exactly when no valid epoch occurred; otherwise best_loss
\* is the smallest total loss of a valid epoch, and the call returns the
\* tracked record with that loss.
C19_Claim ==
    /\ best_cf_example = <<>> <=> best_loss = Inf
    /\ best_loss = Inf <=> ValidEpochs = {}
    /\ ValidEpochs # {} =>
          /\ \E k \in ValidEpochs : epoch_log[k] = best_loss
          /\ \A k \in ValidEpochs : LessEq(best_loss, epoch_log[k])
    /\ pc = "returned" => ret = <<best_cf_example, best_loss>>

\* every worker has left its loop on an end-of-work signal
AllStopped == \A w \in Workers : wpc[w] = "returned"
\* the instance indexes of the results waiting in the result queue
Queued == {result_queue[k][1] : k \in 1 .. Len(result_queue)}

\* C16, the state part: the task queue holds tasks by increasing instance
\* index followed by end-of-work signals only; once the server has closed the
\* pool it has put every task and exactly n_workers signals; a stopped worker
\* holds a signal; and when no worker raised and all have stopped, the task
\* queue is empty and, until the server drains it, the result queue holds
\* exactly one result per instance index.
C16_State ==
    /\ \A k \in 1 .. Len(task_queue) - 1 :
          IF task_queue[k] = Sentinel THEN task_queue[k + 1] = Sentinel
          ELSE task_queue[k + 1] = Sentinel \/ task_queue[k][1] < task_queue[k + 1][1]
    /\ sentinels_put <= n_workers
    /\ sentinels_put > 0 => next_task = n_tasks
    /\ srv_pc # "enqueue" => (next_task = n_tasks /\ sentinels_put = n_workers)
    /\ \A w \in Workers : wpc[w] = "returned" => wargs[w] = Sentinel
    /\ \A w \in Workers : wpc[w] = "handle" => wargs[w] # Sentinel
    /\ (AllStopped /\ Raised = {}) =>
          /\ task_queue = <<>>
          /\ sentinels_put = n_workers
          /\ Len(put_order) = n_tasks
          /\ Range(put_order) = 0 .. n_tasks - 1
          /\ srv_pc # "done" =>
                (Len(result_queue) = n_tasks /\ Queued = 0 .. n_tasks - 1)

\* C16, the step part: a worker that dequeues stops if and only if what it
\* dequeued is an end-of-work signal, and a worker stops in no other step; each
\* dequeue takes the head of the queue for that worker alone.
C16_Step ==
    \A w \in Workers :
        /\ (wpc[w] = "get" /\ wpc'[w] # "get") =>
              /\ task_queue # <<>>
              /\ task_queue' = Tail(task_queue)
              /\ wargs'[w] = Head(task_queue)
              /\ wpc'[w] = "returned" <=> Head(task_queue) = Sentinel
              /\ \A v \in Workers \ {w} : wargs'[v] = wargs[v] /\ wpc'[v] = wpc[v]
        /\ (wpc[w] # "returned" /\ wpc'[w] = "returned") => wpc[w] = "get"
        /\ wpc[w] = "returned" => wpc'[w] = "returned"

\* C16: the task/sentinel protocol. Unless a worker raises, every worker
\* eventually stops on its own end-of-work signal with every instance handled
\* once.
C16_SentinelProtocol ==
    /\ []C16_State
    /\ [][C16_Step]_vars
    /\ <>(Raised # {} \/ AllStopped)

\* C16 case: a pool of MaxWorkers workers has stopped without an error after
\* handling MaxTasks instances, out of instance order, and the server has not
\* drained the results yet
C16_Witness ==
    /\ AllStopped
    /\ Raised = {}
    /\ n_workers = MaxWorkers
    /\ n_tasks = MaxTasks
    /\ srv_pc = "join"
    /\ Len(result_queue) = MaxTasks
    /\ result_queue[1][1] # 0

\* C20 as stated: with the CFExplainer class of the sources a worker that
\* dequeues a task reaches res_q.put for it instead of raising.
C20_Claim ==
    explainer_api = "src" =>
        /\ reported = {}
        /\ \A w \in Workers : wpc[w] # "raised"

\* C13: for every square matrix and every final_side_len not below its side
\* length, the matrix create_symm_matrix_tril returns has side final_side_len,
\* is symmetric and has an all-zero diagonal, padded or not.
C13_SymmetricZeroDiag ==
    (util_pc = "symm_done" /\ final_side_len >= Side(matrix)) =>
        /\ Side(symm_matrix) = final_side_len
        /\ \A i \in DOMAIN symm_matrix : DOMAIN symm_matrix[i] = DOMAIN symm_matrix
        /\ \A i \in DOMAIN symm_matrix : symm_matrix[i][i] = 0
        /\ \A i \in DOMAIN symm_matrix, j \in DOMAIN symm_matrix :
              symm_matrix[i][j] = symm_matrix[j][i]
        /\ \A i \in DOMAIN matrix, j \in DOMAIN matrix :
              j < i => symm_matrix[i][j] = matrix[i][j]

\* C13 case: a matrix that is not symmetric and has a non-zero diagonal was
\* symmetrised and padded to a larger side
C13_Witness ==
    /\ util_pc = "symm_done"
    /\ Side(matrix) = MaxSide
    /\ final_side_len = MaxSide + 1
    /\ matrix[0][0] # 0
    /\ matrix[1][0] = 1
    /\ matrix[0][1] = -1
    /\ symm_matrix[0][1] = 1

\* C14, the deletion-only half: the perturbed adjacency is elementwise <= the
\* original in deletion-only mode. The addition-only half (elementwise >= the
\* original) depends on the complement logic of the delta formulation, which
\* PerturbedAdjs leaves open, and is not stated here.
C14_DeletionOnly ==
    (util_pc = "perturb_done" /\ edit_ops = "del") =>
        \A i \in DOMAIN adj_orig, j \in DOMAIN adj_orig :
            A_tilde[i][j] <= CfScale * adj_orig[i][j]

\* C14 case: deletion-only mode lowered an existing edge of a three-node graph
C14_DeletionWitness ==
    /\ util_pc = "perturb_done"
    /\ edit_ops = "del"
    /\ Side(adj_orig) = 3
    /\ adj_orig[1][0] = 1 /\ A_tilde[1][0] < CfScale
    /\ adj_orig[2][0] = 0

\* two configurations hold the same values: numbers compare by value, so the
\* int 1 and the float 1.0 are the same
SameConfig(c, d) ==
    /\ \A h \in NumericParams : Thousandths(c[h]) = Thousandths(d[h])
    /\ \A h \in HyperParams \ NumericParams : c[h] = d[h]

\* C11 as stated: two runs whose configurations differ in a hyperparameter
\* have different paths before the numeric suffix.
C11_Claim ==
    \A i \in 1 .. Len(runs), j \in 1 .. Len(runs) :
        ~SameConfig(runs[i].cfg, runs[j].cfg) => runs[i].base # runs[j].base

\* the step is one run of server_explain
SaveStep == Len(runs') = Len(runs) + 1
\* every run so far derived one path, that of a randomized configuration
SameRandPath ==
    /\ runs # <<>>
    /\ \A i \in 1 .. Len(runs) :
          /\ Thousandths(runs[i].cfg.rand_init) > 0
          /\ runs[i].base = runs[1].base
\* every run so far repeated the first one: the same arguments, passed the
\* same way
RepeatedRuns ==
    /\ runs # <<>>
    /\ \A i \in 1 .. Len(runs) : runs[i].cfg = runs[1].cfg

\* C12, the step part: a run with rand_init > 0 writes the derived path
\* followed by the smallest n >= 0 for which that path did not exist, a path
\* that did not exist, and leaves every existing file as it was.
C12_Step ==
    (SaveStep /\ Thousandths(cfg'.rand_init) > 0) =>
        LET r == runs'[Len(runs')] IN
        /\ r.path \notin DOMAIN files
        /\ \E n \in 0 .. Len(runs) :
              /\ r.path = r.base \o ToString(n)
              /\ \A k \in 0 .. n - 1 : (r.base \o ToString(k)) \in DOMAIN files
        /\ \A q \in DOMAIN files : files'[q] = files[q]
        /\ files'[r.path] = Len(runs')

\* C12, the state part: repeated runs of one randomized configuration derive
\* one path, and after k randomized runs that derived one path the suffixes
\* 0 .. k-1 all exist, each holding the result of its own run.
C12_State ==
    /\ (RepeatedRuns /\ Thousandths(runs[1].cfg.rand_init) > 0) => SameRandPath
    /\ SameRandPath =>
          \A n \in 0 .. Len(runs) - 1 :
              /\ (runs[1].base \o ToString(n)) \in DOMAIN files
              /\ files[runs[1].base \o ToString(n)] = n + 1
              /\ runs[n + 1].path = runs[1].base \o ToString(n)

\* C12: with randomized initialization (rand_init > 0) server_explain never
\* writes to a path that already exists: it writes the derived path followed
\* by the smallest free n >= 0, so after k repeated runs of one configuration
\* the suffixes 0 .. k-1 all exist and no earlier result was overwritten.
C12_NoOverwrite ==
    /\ []C12_State
    /\ [][C12_Step]_vars

\* C12 case: MaxRuns repeated runs of one randomized configuration have been
\* saved
C12_Witness ==
    /\ RepeatedRuns
    /\ Thousandths(runs[1].cfg.rand_init) > 0
    /\ Len(runs) = MaxRuns
    /\ Cardinality(DOMAIN files) = MaxRuns

====
